---- MODULE Spec2Model ----
(***************************************************************************)
(* LSB image steganography codec (src/services/steganographyService.ts).   *)
(*                                                                         *)
(* A pixel buffer is a function 0..n-1 -> 0..255 (the Uint8ClampedArray    *)
(* imageData.data, RGBA, n = 4 * pixels).  A JavaScript string is a        *)
(* sequence of UTF-16 code units.  A "binary string" ('0'/'1' characters)  *)
(* is a sequence of 0/1.  The two walks of encodeTextInImage and           *)
(* decodeTextFromImage are modelled one loop iteration per step.           *)
(***************************************************************************)
EXTENDS Integers, Sequences, FiniteSets, TLC

VARIABLES
    pc,                     \* position of the running call
    data,                   \* imageData.data
    data0,                  \* the buffer as handed to encodeTextInImage
    text,                   \* the text argument of encodeTextInImage
    fullBinaryPayload,      \* encode: length prefix ++ message bits
    dataIndex,              \* encode and decode: the channel cursor
    payloadIndex,           \* encode: next payload bit
    encError,               \* encode: the rejection, "none" if none
    extractedLengthBinary,  \* decode: the 32 length bits read so far
    messageLength,          \* decode: parseInt(extractedLengthBinary, 2)
    extractedMessageBinary, \* decode: the message bits read so far
    decResult,              \* decode: how the promise settled
    readIdx,                \* decode: the indices of data read so far
    origin                  \* where the decoded buffer came from

\* the encoding state of the App component (src/App.tsx, lines 9-14) and the
\* call of encodeTextInImage that handleEncode is awaiting
VARIABLES
    imageFile,
    originalImagePreviewUrl,
    uiText,
    processedImageUrl,
    isLoading,
    error,
    pendingEncode

uiVars == <<imageFile, originalImagePreviewUrl, uiText, processedImageUrl,
            isLoading, error, pendingEncode>>

codecVars == <<pc, data, data0, text, fullBinaryPayload, dataIndex, payloadIndex,
          encError, extractedLengthBinary, messageLength,
          extractedMessageBinary, decResult, readIdx, origin>>

vars == <<codecVars, uiVars>>

(***************************************************************************)
(* Bounds of the model and constants of the program.                       *)
(***************************************************************************)
MaxTextLen == 2
MaxPixels == 27
MaxDeclared == 50
MaxFiles == 2

LengthBits == 32
ChannelsPerPixel == 4
AlphaChannel == 3
LimbBase == 2^16

(***************************************************************************)
(* Sequence helpers.                                                       *)
(***************************************************************************)
RECURSIVE Flatten(_)
Flatten(ss) ==
    IF ss = <<>> THEN <<>> ELSE Head(ss) \o Flatten(Tail(ss))

Repeat(x, n) == [k \in 1..n |-> x]

(***************************************************************************)
(* TextEncoder.encode (line 4): the string is first converted to scalar    *)
(* values (a surrogate pair is one code point, an unpaired surrogate is    *)
(* replaced by U+FFFD), then each scalar value is written in UTF-8.        *)
(***************************************************************************)
IsHighSurrogate(u) == u >= 55296 /\ u <= 56319
IsLowSurrogate(u) == u >= 56320 /\ u <= 57343

RECURSIVE ToScalarValues(_)
ToScalarValues(units) ==
    IF units = <<>> THEN <<>>
    ELSE LET u == Head(units) IN
         IF IsHighSurrogate(u) /\ Len(units) >= 2 /\ IsLowSurrogate(units[2])
         THEN <<65536 + (u - 55296) * 1024 + (units[2] - 56320)>>
                  \o ToScalarValues(Tail(Tail(units)))
         ELSE IF IsHighSurrogate(u) \/ IsLowSurrogate(u)
         THEN <<65533>> \o ToScalarValues(Tail(units))
         ELSE <<u>> \o ToScalarValues(Tail(units))

Utf8OfScalar(c) ==
    IF c < 128 THEN <<c>>
    ELSE IF c < 2048 THEN <<192 + (c \div 64), 128 + (c % 64)>>
    ELSE IF c < 65536
    THEN <<224 + (c \div 4096), 128 + ((c \div 64) % 64), 128 + (c % 64)>>
    ELSE <<240 + (c \div 262144), 128 + ((c \div 4096) % 64),
           128 + ((c \div 64) % 64), 128 + (c % 64)>>

TextEncoderEncode(units) ==
    LET cps == ToScalarValues(units)
    IN  Flatten([k \in 1..Len(cps) |-> Utf8OfScalar(cps[k])])

(***************************************************************************)
(* byte.toString(2).padStart(8, '0') (line 7) and the helpers              *)
(* textToUTF8Binary (lines 2-10) and numberToBinary (lines 13-19).         *)
(***************************************************************************)
RECURSIVE ToStringRadix2(_)
ToStringRadix2(n) ==
    IF n < 2 THEN <<n>> ELSE ToStringRadix2(n \div 2) \o <<(n % 2)>>

\* the padStart call left out
PadStartMissing(s, width) == s

PadStart(s, width) ==
    IF Len(s) >= width THEN s ELSE Repeat(0, width - Len(s)) \o s

textToUTF8Binary(units) ==
    LET utf8Bytes == TextEncoderEncode(units)
    IN  Flatten([k \in 1..Len(utf8Bytes) |->
                    PadStart(ToStringRadix2(utf8Bytes[k]), 8)])

\* line 15: the guard under which numberToBinary throws
numberToBinaryThrows(num, bits) == Len(ToStringRadix2(num)) > bits

\* the digits written least-significant first
numberToBinaryLittleEndian(num, bits) ==
    LET binary == ToStringRadix2(num)
    IN  [k \in 1..Len(binary) |-> binary[Len(binary) + 1 - k]]
            \o Repeat(0, bits - Len(binary))

\* line 18
numberToBinary(num, bits) ==
    LET binary == ToStringRadix2(num)
    IN  Repeat(0, bits - Len(binary)) \o binary

(***************************************************************************)
(* parseInt(s, 2) of a string of binary digits (lines 36 and 209).         *)
(***************************************************************************)
RECURSIVE ParseIntRadix2(_)
ParseIntRadix2(s) ==
    IF s = <<>> THEN 0
    ELSE 2 * ParseIntRadix2(SubSeq(s, 1, Len(s) - 1)) + s[Len(s)]

(***************************************************************************)
(* TextDecoder('utf-8', {fatal: true}).decode (lines 45-47): the strict    *)
(* UTF-8 decoder; a malformed sequence makes the call throw.  Utf8Decode   *)
(* yields the scalar values, with Malformed in place of the first          *)
(* malformed sequence.  ignoreBOM is left at its default (false), so a     *)
(* leading U+FEFF is removed from the output.                              *)
(***************************************************************************)
Malformed == -1

IsCont(bytes, i, lo, hi) == i <= Len(bytes) /\ bytes[i] >= lo /\ bytes[i] <= hi

RECURSIVE Utf8Decode(_, _)
Utf8Decode(bytes, i) ==
    IF i > Len(bytes) THEN <<>>
    ELSE LET b == bytes[i] IN
    IF b <= 127 THEN <<b>> \o Utf8Decode(bytes, i + 1)
    ELSE IF b >= 194 /\ b <= 223
    THEN IF IsCont(bytes, i + 1, 128, 191)
         THEN <<(b - 192) * 64 + (bytes[i + 1] - 128)>>
                  \o Utf8Decode(bytes, i + 2)
         ELSE <<Malformed>>
    ELSE IF b >= 224 /\ b <= 239
    THEN IF /\ IsCont(bytes, i + 1, IF b = 224 THEN 160 ELSE 128,
                                    IF b = 237 THEN 159 ELSE 191)
            /\ IsCont(bytes, i + 2, 128, 191)
         THEN <<(b - 224) * 4096 + (bytes[i + 1] - 128) * 64
                    + (bytes[i + 2] - 128)>> \o Utf8Decode(bytes, i + 3)
         ELSE <<Malformed>>
    ELSE IF b >= 240 /\ b <= 244
    THEN IF /\ IsCont(bytes, i + 1, IF b = 240 THEN 144 ELSE 128,
                                    IF b = 244 THEN 143 ELSE 191)
            /\ IsCont(bytes, i + 2, 128, 191)
            /\ IsCont(bytes, i + 3, 128, 191)
         THEN <<(b - 240) * 262144 + (bytes[i + 1] - 128) * 4096
                    + (bytes[i + 2] - 128) * 64 + (bytes[i + 3] - 128)>>
                  \o Utf8Decode(bytes, i + 4)
         ELSE <<Malformed>>
    ELSE <<Malformed>>

Utf16OfScalar(c) ==
    IF c < 65536 THEN <<c>>
    ELSE <<55296 + ((c - 65536) \div 1024), 56320 + ((c - 65536) % 1024)>>

StripBOM(cps) ==
    IF cps # <<>> /\ Head(cps) = 65279 THEN Tail(cps) ELSE cps

TextDecoderThrows(bytes) ==
    LET cps == Utf8Decode(bytes, 1)
    IN  \E k \in 1..Len(cps) : cps[k] = Malformed

TextDecoderDecode(bytes) ==
    LET cps == StripBOM(Utf8Decode(bytes, 1))
    IN  Flatten([k \in 1..Len(cps) |-> Utf16OfScalar(cps[k])])

(***************************************************************************)
(* binaryToUTF8Text (lines 22-52).  The loop of lines 31-42 keeps the      *)
(* chunks of exactly 8 digits; a shorter last chunk is only logged.        *)
(***************************************************************************)
binaryToUTF8Bytes(binaryString) ==
    LET starts == {i \in 0..(Len(binaryString) - 1) : i % 8 = 0}
        whole == {i \in starts : i + 8 <= Len(binaryString)}
    IN  [k \in 1..Cardinality(whole) |->
            ParseIntRadix2(SubSeq(binaryString, 8 * (k - 1) + 1, 8 * k))]

\* line 50: the rethrown error
binaryToUTF8TextThrows(binaryString) ==
    TextDecoderThrows(binaryToUTF8Bytes(binaryString))

\* line 47
binaryToUTF8Text(binaryString) ==
    TextDecoderDecode(binaryToUTF8Bytes(binaryString))

(***************************************************************************)
(* Pixel buffers.  data.length, the capacity in bits (lines 98 and 186),   *)
(* the alpha test (lines 116, 202, 239) and the two bit operations.        *)
(***************************************************************************)
DataLength(d) == Cardinality(DOMAIN d)

\* every channel counted, the alpha channel too
CapacityCountsAlpha(d) == DataLength(d)

\* rounded up to whole bytes of payload
CapacityRoundedUp(d) == 8 * (((DataLength(d) * 3) \div ChannelsPerPixel + 7) \div 8)

\* Math.floor((data.length / 4) * 3)
Capacity(d) == (DataLength(d) * 3) \div ChannelsPerPixel

\* the alpha test left out
IsEligibleEveryChannel(i) == TRUE

\* the first channel skipped in place of the fourth
IsEligibleSkipsFirst(i) == i % ChannelsPerPixel # 0

\* dataIndex % 4 !== 3
IsEligible(i) == i % ChannelsPerPixel # AlphaChannel

\* >= in place of >
PayloadTooLongOffByOne(payloadLength, maxEmbeddableBits) ==
    payloadLength >= maxEmbeddableBits

\* fullBinaryPayload.length > maxEmbeddableBits, line 99
PayloadTooLong(payloadLength, maxEmbeddableBits) ==
    payloadLength > maxEmbeddableBits

\* the prefix counted in bytes
TooSmallForLengthInBytes(totalAvailableBits) ==
    totalAvailableBits < LengthBits \div 8

\* totalAvailableBits < 32, line 188
TooSmallForLength(totalAvailableBits) == totalAvailableBits < LengthBits

\* the mask 0xFC in place of 0xFE
EmbedBitWrongMask(byte, bit) == (byte - (byte % 4)) + bit

\* (data[dataIndex] & 0xFE) | bitToEmbed, line 118
EmbedBit(byte, bit) == (byte - (byte % 2)) + bit

\* the mask 2 in place of 1
ExtractBitWrongMask(byte) == (byte \div 2) % 2

\* data[dataIndex] & 1, lines 203 and 240
ExtractBit(byte) == byte % 2

(***************************************************************************)
(* parseInt of the 32 length digits (line 209) reaches 2^32 - 1; the value *)
(* is kept as two 16-bit limbs, hi * 2^16 + lo, and compared limb-wise.    *)
(***************************************************************************)
ParseLength(s) ==
    [hi |-> ParseIntRadix2(SubSeq(s, 1, Len(s) - 16)),
     lo |-> ParseIntRadix2(SubSeq(s, Len(s) - 15, Len(s)))]

LengthIsZero(m) == m.hi = 0 /\ m.lo = 0

\* >= in place of >
LengthGreaterOrEqual(m, n) ==
    \/ m.hi > n \div LimbBase
    \/ m.hi = n \div LimbBase /\ m.lo >= n % LimbBase

LengthGreater(m, n) ==
    \/ m.hi > n \div LimbBase
    \/ m.hi = n \div LimbBase /\ m.lo > n % LimbBase

\* the number itself, where it is known to be at most the capacity
LengthValue(m) == m.hi * LimbBase + m.lo

NoLength == [hi |-> 0, lo |-> 0]

(***************************************************************************)
(* Inputs: the texts and the pixel buffers the calls are given.            *)
(***************************************************************************)
\* 'A', e-acute, the euro sign, the two halves of U+1F600, and U+FEFF
Chars == {65, 233, 8364, 55357, 56832, 65279}

Texts == UNION {[1..n -> Chars] : n \in 0..MaxTextLen}

PixelCounts == {4, 10, 11, 16, 19, MaxPixels}

Solid(n, v) == [i \in 0..(n - 1) |-> v]
Mixed(n) == [i \in 0..(n - 1) |-> (i * 37 + 11) % 256]

PlainBuffers ==
    UNION {{Solid(ChannelsPerPixel * p, 0), Solid(ChannelsPerPixel * p, 255),
            Mixed(ChannelsPerPixel * p)} : p \in PixelCounts}

\* a buffer whose first eligible low bits spell the given digits
WithPrefix(b, digits) ==
    [i \in DOMAIN b |->
        LET k == i - (i \div ChannelsPerPixel)
        IN  IF i % ChannelsPerPixel # AlphaChannel /\ k < Len(digits)
            THEN (b[i] - (b[i] % 2)) + digits[k + 1]
            ELSE b[i]]

\* the digits of n < 2^16, most significant first, in the given width
Digits(n, width) ==
    [k \in 1..width |-> IF width - k >= 16 THEN 0 ELSE (n \div 2^(width - k)) % 2]

Prefixes ==
    {Digits(n, LengthBits) : n \in 0..MaxDeclared}
        \cup {Repeat(1, LengthBits),
              <<1>> \o Repeat(0, LengthBits - 1),
              Repeat(0, 15) \o <<1>> \o Repeat(0, 16)}

ForeignBuffers ==
    PlainBuffers \cup {WithPrefix(b, d) : b \in PlainBuffers, d \in Prefixes}

(***************************************************************************)
(* The state machine.                                                      *)
(***************************************************************************)
Unsettled == [kind |-> "pending", error |-> "none", text |-> <<>>]
Resolved(t) == [kind |-> "resolved", error |-> "none", text |-> t]
Rejected(e) == [kind |-> "rejected", error |-> e, text |-> <<>>]

\* useState initial values, App.tsx lines 9-14
NoFile == 0
NoUrl == [file |-> NoFile, text |-> <<>>]
NoCall == [file |-> NoFile, text |-> <<>>]

UIInit ==
    /\ imageFile = NoFile
    /\ originalImagePreviewUrl = NoFile
    /\ uiText = <<>>
    /\ processedImageUrl = NoUrl
    /\ isLoading = FALSE
    /\ error = "none"
    /\ pendingEncode = NoCall

Init ==
    /\ UIInit
    /\ pc = "idle"
    /\ data = <<>>
    /\ data0 = <<>>
    /\ text = <<>>
    /\ fullBinaryPayload = <<>>
    /\ dataIndex = 0
    /\ payloadIndex = 0
    /\ encError = "none"
    /\ extractedLengthBinary = <<>>
    /\ messageLength = NoLength
    /\ extractedMessageBinary = <<>>
    /\ decResult = Unsettled
    /\ readIdx = {}
    /\ origin = "none"

decodeVars == <<extractedLengthBinary, messageLength, extractedMessageBinary,
                decResult, readIdx, origin>>

\* encodeTextInImage, lines 92-109: the payload and the capacity check
EncodeStart(b, t) ==
    /\ pc = "idle"
    /\ data' = b
    /\ data0' = b
    /\ text' = t
    /\ dataIndex' = 0
    /\ payloadIndex' = 0
    /\ LET secretMessageBinary == textToUTF8Binary(t)
           maxEmbeddableBits == Capacity(b)
       IN  IF numberToBinaryThrows(Len(secretMessageBinary), LengthBits)
           THEN /\ fullBinaryPayload' = <<>>
                /\ encError' = "NumberTooLarge"
                /\ pc' = "enc_failed"
           ELSE LET messageLengthBinary ==
                        numberToBinary(Len(secretMessageBinary), LengthBits)
                    payload == messageLengthBinary \o secretMessageBinary
                IN  /\ fullBinaryPayload' = payload
                    /\ IF PayloadTooLong(Len(payload), maxEmbeddableBits)
                       THEN encError' = "CapacityExceeded" /\ pc' = "enc_failed"
                       ELSE encError' = "none" /\ pc' = "enc_walk"
    /\ UNCHANGED decodeVars
    /\ UNCHANGED uiVars

\* one iteration of the loop of lines 111-122
EncodeStep ==
    /\ pc = "enc_walk"
    /\ payloadIndex < Len(fullBinaryPayload)
    /\ IF dataIndex >= DataLength(data)
       THEN /\ encError' = "RanOutOfData"
            /\ pc' = "enc_failed"
            /\ UNCHANGED <<data, dataIndex, payloadIndex>>
       ELSE /\ IF IsEligible(dataIndex)
               THEN /\ data' = [data EXCEPT ![dataIndex] =
                            EmbedBit(@, fullBinaryPayload[payloadIndex + 1])]
                    /\ payloadIndex' = payloadIndex + 1
               ELSE UNCHANGED <<data, payloadIndex>>
            /\ dataIndex' = dataIndex + 1
            /\ UNCHANGED <<pc, encError>>
    /\ UNCHANGED <<data0, text, fullBinaryPayload>>
    /\ UNCHANGED decodeVars
    /\ UNCHANGED uiVars

\* the loop test fails; lines 124-125 hand the buffer back
EncodeFinish ==
    /\ pc = "enc_walk"
    /\ payloadIndex >= Len(fullBinaryPayload)
    /\ pc' = "enc_done"
    /\ UNCHANGED <<data, data0, text, fullBinaryPayload, dataIndex,
                   payloadIndex, encError>>
    /\ UNCHANGED decodeVars
    /\ UNCHANGED uiVars

\* decodeTextFromImage, lines 185-195
DecodeBegin(b, from) ==
    /\ data' = b
    /\ origin' = from
    /\ dataIndex' = 0
    /\ extractedLengthBinary' = <<>>
    /\ extractedMessageBinary' = <<>>
    /\ messageLength' = NoLength
    /\ readIdx' = {}
    /\ LET totalAvailableBits == Capacity(b)
       IN  IF TooSmallForLength(totalAvailableBits)
           THEN decResult' = Rejected("BufferTooSmall") /\ pc' = "dec_failed"
           ELSE decResult' = Unsettled /\ pc' = "dec_len"
    /\ UNCHANGED <<data0, text, fullBinaryPayload, payloadIndex, encError>>
    /\ UNCHANGED uiVars

\* decoding an image that encodeTextInImage did not produce
DecodeForeign(b) ==
    /\ pc = "idle"
    /\ DecodeBegin(b, "foreign")

\* decoding the buffer that encodeTextInImage has just filled
DecodeEmbedded ==
    /\ pc = "enc_done"
    /\ DecodeBegin(data, "embedded")

\* one iteration of the loop of lines 197-207
DecodeLengthStep ==
    /\ pc = "dec_len"
    /\ Len(extractedLengthBinary) < LengthBits
    /\ IF dataIndex >= DataLength(data)
       THEN /\ decResult' = Rejected("RanOutOfData")
            /\ pc' = "dec_failed"
            /\ UNCHANGED <<extractedLengthBinary, readIdx, dataIndex>>
       ELSE /\ IF IsEligible(dataIndex)
               THEN /\ extractedLengthBinary' =
                        Append(extractedLengthBinary, ExtractBit(data[dataIndex]))
                    /\ readIdx' = readIdx \cup {dataIndex}
               ELSE UNCHANGED <<extractedLengthBinary, readIdx>>
            /\ dataIndex' = dataIndex + 1
            /\ UNCHANGED <<pc, decResult>>
    /\ UNCHANGED <<data, data0, text, fullBinaryPayload, payloadIndex,
                   encError, messageLength, extractedMessageBinary, origin>>
    /\ UNCHANGED uiVars

\* lines 209-232: the declared length and its checks
DecodeLengthDone ==
    /\ pc = "dec_len"
    /\ Len(extractedLengthBinary) >= LengthBits
    /\ LET parsed == ParseLength(extractedLengthBinary)
           totalAvailableBits == Capacity(data)
           remainingBitsInImage == totalAvailableBits - LengthBits
       IN  /\ messageLength' = parsed
           /\ IF LengthIsZero(parsed)
              THEN decResult' = Resolved(<<>>) /\ pc' = "dec_done"
              ELSE IF LengthGreater(parsed, remainingBitsInImage)
              THEN /\ decResult' = Rejected("DeclaredLengthExceedsCapacity")
                   /\ pc' = "dec_failed"
              ELSE decResult' = Unsettled /\ pc' = "dec_msg"
    /\ UNCHANGED <<data, data0, text, fullBinaryPayload, dataIndex,
                   payloadIndex, encError, extractedLengthBinary,
                   extractedMessageBinary, readIdx, origin>>
    /\ UNCHANGED uiVars

\* one iteration of the loop of lines 234-244
DecodeMessageStep ==
    /\ pc = "dec_msg"
    /\ Len(extractedMessageBinary) < LengthValue(messageLength)
    /\ IF dataIndex >= DataLength(data)
       THEN /\ decResult' = Rejected("RanOutOfData")
            /\ pc' = "dec_failed"
            /\ UNCHANGED <<extractedMessageBinary, readIdx, dataIndex>>
       ELSE /\ IF IsEligible(dataIndex)
               THEN /\ extractedMessageBinary' =
                        Append(extractedMessageBinary, ExtractBit(data[dataIndex]))
                    /\ readIdx' = readIdx \cup {dataIndex}
               ELSE UNCHANGED <<extractedMessageBinary, readIdx>>
            /\ dataIndex' = dataIndex + 1
            /\ UNCHANGED <<pc, decResult>>
    /\ UNCHANGED <<data, data0, text, fullBinaryPayload, payloadIndex,
                   encError, extractedLengthBinary, messageLength, origin>>
    /\ UNCHANGED uiVars

\* lines 246-251: the message digits are decoded as UTF-8
DecodeFinish ==
    /\ pc = "dec_msg"
    /\ Len(extractedMessageBinary) >= LengthValue(messageLength)
    /\ IF binaryToUTF8TextThrows(extractedMessageBinary)
       THEN decResult' = Rejected("InvalidEncoding") /\ pc' = "dec_failed"
       ELSE /\ decResult' = Resolved(binaryToUTF8Text(extractedMessageBinary))
            /\ pc' = "dec_done"
    /\ UNCHANGED <<data, data0, text, fullBinaryPayload, dataIndex,
                   payloadIndex, encError, extractedLengthBinary,
                   messageLength, extractedMessageBinary, readIdx, origin>>
    /\ UNCHANGED uiVars

Next ==
    \/ \E b \in PlainBuffers, t \in Texts : EncodeStart(b, t)
    \/ EncodeStep
    \/ EncodeFinish
    \/ \E b \in ForeignBuffers : DecodeForeign(b)
    \/ DecodeEmbedded
    \/ DecodeLengthStep
    \/ DecodeLengthDone
    \/ DecodeMessageStep
    \/ DecodeFinish

Spec == Init /\ [][Next]_vars

(***************************************************************************)
(* The encoding half of the App component (src/App.tsx).  A File is a      *)
(* number in 1..MaxFiles; the data URL that encodeTextInImage resolves     *)
(* with is the pair of the file and the text it was called with.           *)
(***************************************************************************)
Files == 1..MaxFiles

\* 'A', e-acute and the space
UIChars == {65, 233, 32}
UITexts == UNION {[1..n -> UIChars] : n \in 0..1}

\* String.prototype.trim, line 176
RECURSIVE TrimStart(_)
TrimStart(t) ==
    IF t # <<>> /\ Head(t) = 32 THEN TrimStart(Tail(t)) ELSE t

RECURSIVE TrimEnd(_)
TrimEnd(t) ==
    IF t # <<>> /\ t[Len(t)] = 32 THEN TrimEnd(SubSeq(t, 1, Len(t) - 1)) ELSE t

Trim(t) == TrimEnd(TrimStart(t))

\* the disabled attribute of the embed button, line 176
EncodeButtonDisabled == imageFile = NoFile \/ Trim(uiText) = <<>> \/ isLoading

\* handleImageChange, lines 39-54; file is event.target.files?.[0]
handleImageChange(file) ==
    /\ processedImageUrl' = NoUrl
    /\ error' = "none"
    /\ imageFile' = file
    /\ originalImagePreviewUrl' = file
    /\ UNCHANGED <<uiText, isLoading, pendingEncode>>
    /\ UNCHANGED codecVars

\* handleTextChange, lines 56-59
handleTextChange(value) ==
    /\ uiText' = value
    /\ error' = "none"
    /\ UNCHANGED <<imageFile, originalImagePreviewUrl, processedImageUrl,
                   isLoading, pendingEncode>>
    /\ UNCHANGED codecVars

\* handleEncode up to its await, lines 61-72, clicked on the enabled button
handleEncode ==
    /\ ~EncodeButtonDisabled
    /\ IF imageFile = NoFile \/ uiText = <<>>
       THEN /\ error' = "Please select an image and enter text to embed."
            /\ UNCHANGED <<isLoading, processedImageUrl, pendingEncode>>
       ELSE /\ isLoading' = TRUE
            /\ error' = "none"
            /\ processedImageUrl' = NoUrl
            /\ pendingEncode' = [file |-> imageFile, text |-> uiText]
    /\ UNCHANGED <<imageFile, originalImagePreviewUrl, uiText>>
    /\ UNCHANGED codecVars

\* the awaited promise resolves: lines 72-73 and the finally of line 82
EncodeResolved ==
    /\ pendingEncode # NoCall
    /\ processedImageUrl' = pendingEncode
    /\ isLoading' = FALSE
    /\ pendingEncode' = NoCall
    /\ UNCHANGED <<imageFile, originalImagePreviewUrl, uiText, error>>
    /\ UNCHANGED codecVars

\* the awaited promise rejects: lines 74-82
EncodeRejected ==
    /\ pendingEncode # NoCall
    /\ error' = "Encoding failed"
    /\ isLoading' = FALSE
    /\ pendingEncode' = NoCall
    /\ UNCHANGED <<imageFile, originalImagePreviewUrl, uiText,
                   processedImageUrl>>
    /\ UNCHANGED codecVars

NextUI ==
    \/ \E file \in Files \cup {NoFile} : handleImageChange(file)
    \/ \E value \in UITexts : handleTextChange(value)
    \/ handleEncode
    \/ EncodeResolved
    \/ EncodeRejected

SpecUI == Init /\ [][NextUI]_vars

(***************************************************************************)
(* Vocabulary of the properties, written without the operators above       *)
(* wherever the property is about them.                                    *)
(***************************************************************************)
\* an embed call has been made on data0 with text
Embedding == pc # "idle" /\ origin # "foreign"
EmbedSettled == Embedding /\ pc # "enc_walk"
EmbedSucceeded == EmbedSettled /\ encError = "none"

\* an extract call is running or has settled
Extracting == origin # "none"
ExtractSettled == pc \in {"dec_done", "dec_failed"}
ExtractOfEmbedded == origin = "embedded" /\ ExtractSettled

\* floor(buffer.length / 4) * 3
ClaimedCapacity(d) == (DataLength(d) \div 4) * 3

Utf8ByteCount(t) == Len(TextEncoderEncode(t))
MessageBitLength(t) == 8 * Utf8ByteCount(t)

\* the k-th (from 0) byte that is not an alpha byte
EligibleIndex(k) == 4 * (k \div 3) + (k % 3)

\* the low bits of the first n eligible bytes, in walk order
FirstLowBits(d, n) == [k \in 1..n |-> d[EligibleIndex(k - 1)] % 2]

AllZero(s) == \A k \in 1..Len(s) : s[k] = 0

\* the unsigned big-endian value of 32 digits that is below 2^16, else -1
RECURSIVE BigEndianValue(_, _)
BigEndianValue(s, k) ==
    IF k = 0 THEN 0 ELSE 2 * BigEndianValue(s, k - 1) + s[k]

SmallPrefixValue(d) ==
    LET s == FirstLowBits(d, 32)
    IN  IF AllZero(SubSeq(s, 1, 16)) THEN BigEndianValue(s, 32) ELSE -1

\* the declared length is larger than n (n below 2^16)
DeclaredExceeds(d, n) == SmallPrefixValue(d) = -1 \/ SmallPrefixValue(d) > n

\* no unpaired surrogate
WellFormed(t) ==
    \A k \in 1..Len(t) :
        /\ IsHighSurrogate(t[k]) => k < Len(t) /\ IsLowSurrogate(t[k + 1])
        /\ IsLowSurrogate(t[k]) => k > 1 /\ IsHighSurrogate(t[k - 1])

StartsWithBOM(t) == t # <<>> /\ t[1] = 65279

(***************************************************************************)
(* C1.  Round trip, as claimed: for every text t and buffer b with         *)
(* floor(len(b)/4)*3 >= 32 + 8*(UTF-8 bytes of t), embed succeeds and      *)
(* extract of the resulting buffer returns exactly t.                      *)
(***************************************************************************)
C1_RoundTripEveryText ==
    /\ (EmbedSettled /\ ClaimedCapacity(data0) >= 32 + MessageBitLength(text))
          => encError = "none"
    /\ ExtractOfEmbedded => decResult = Resolved(text)

(***************************************************************************)
(* C1 amended.  The round trip holds for every text with no unpaired       *)
(* surrogate that does not begin with U+FEFF: embed succeeds whenever the  *)
(* capacity suffices, and extract of the resulting buffer returns t.       *)
(***************************************************************************)
C1_RoundTripWellFormed ==
    /\ (EmbedSettled /\ ClaimedCapacity(data0) >= 32 + MessageBitLength(text))
          => encError = "none"
    /\ (ExtractOfEmbedded /\ WellFormed(text) /\ ~StartsWithBOM(text))
          => decResult = Resolved(text)

C1_Witness ==
    /\ ExtractOfEmbedded
    /\ WellFormed(text) /\ ~StartsWithBOM(text)
    /\ Len(text) >= 2
    /\ Utf8ByteCount(text) > Len(text)
    /\ decResult = Resolved(text)

(***************************************************************************)
(* C2.  Capacity boundary: embed succeeds if and only if                   *)
(* 32 + message bit length <= floor(buffer.length/4)*3, and when it fails  *)
(* it fails with CapacityExceeded.                                         *)
(***************************************************************************)
C2_CapacityBoundary ==
    EmbedSettled =>
        /\ (encError = "none")
              <=> (32 + MessageBitLength(text) <= ClaimedCapacity(data0))
        /\ encError \in {"none", "CapacityExceeded"}

\* a message of exactly capacity - 32 bits has been embedded
C2_Witness ==
    /\ pc = "enc_done"
    /\ MessageBitLength(text) > 0
    /\ 32 + MessageBitLength(text) = ClaimedCapacity(data0)

(***************************************************************************)
(* C3.  Embed is all-or-nothing: whenever embed has failed, every byte of  *)
(* the buffer equals its value before the call.                            *)
(***************************************************************************)
C3_FailureLeavesBufferUntouched ==
    (Embedding /\ encError # "none") => data = data0

\* a failure on a buffer large enough for the walk to have started
C3_Witness ==
    /\ pc = "enc_failed"
    /\ encError = "CapacityExceeded"
    /\ ClaimedCapacity(data0) >= 32
    /\ \E i \in DOMAIN data0 : i % 4 # 3 /\ data0[i] % 2 = 1
    /\ data = data0

(***************************************************************************)
(* C4.  Alpha preservation: at every step of embed, and whether it         *)
(* succeeds or fails, each byte at an index i with i mod 4 = 3 equals its  *)
(* original value; extract never reads such an index.                      *)
(***************************************************************************)
C4_AlphaPreserved ==
    /\ Embedding =>
          \A i \in DOMAIN data0 : i % 4 = 3 => data[i] = data0[i]
    /\ \A i \in readIdx : i % 4 # 3

\* embed changed the buffer past several alpha bytes and extract read it
C4_Witness ==
    /\ ExtractOfEmbedded
    /\ data # data0
    /\ \E i \in readIdx : i > 40
    /\ \E i \in DOMAIN data0 : i % 4 = 3 /\ data0[i] % 2 = 1

(***************************************************************************)
(* C5.  Non-destructive bit edits: at every index the byte after embed     *)
(* differs from the original in at most its least-significant bit, and is  *)
(* a byte.                                                                 *)
(***************************************************************************)
C5_OnlyLowBitChanges ==
    Embedding =>
        \A i \in DOMAIN data0 :
            /\ data[i] \div 2 = data0[i] \div 2
            /\ data[i] \in 0..255

\* a finished embed that both set and cleared low bits
C5_Witness ==
    /\ pc = "enc_done"
    /\ \E i \in DOMAIN data0 : data0[i] > 1 /\ data[i] = data0[i] - 1
    /\ \E i \in DOMAIN data0 : data0[i] > 1 /\ data[i] = data0[i] + 1

(***************************************************************************)
(* C6.  Malformed payload is reported: when extract reads a nonzero length *)
(* prefix that is within capacity and not a multiple of 8, the call ends   *)
(* in a MalformedPayload failure.                                          *)
(***************************************************************************)
C6_MalformedPayloadReported ==
    (/\ ExtractSettled
     /\ ClaimedCapacity(data) >= 32
     /\ ~DeclaredExceeds(data, ClaimedCapacity(data) - 32)
     /\ SmallPrefixValue(data) % 8 # 0)
        => decResult = Rejected("MalformedPayload")

(***************************************************************************)
(* C7.  Unrelated image rejection: with capacity >= 32, a declared length  *)
(* above capacity - 32 ends extract in DeclaredLengthExceedsCapacity with  *)
(* no message bit read; a nonzero declared length of at most               *)
(* capacity - 32 never ends in that error.                                 *)
(***************************************************************************)
C7_DeclaredLengthCheck ==
    (ExtractSettled /\ ClaimedCapacity(data) >= 32) =>
        IF DeclaredExceeds(data, ClaimedCapacity(data) - 32)
        THEN /\ decResult = Rejected("DeclaredLengthExceedsCapacity")
             /\ extractedMessageBinary = <<>>
             /\ readIdx = {EligibleIndex(k) : k \in 0..31}
        ELSE decResult.error # "DeclaredLengthExceedsCapacity"

\* a declared length one above what the buffer can hold is rejected
C7_Witness ==
    /\ pc = "dec_failed"
    /\ origin = "foreign"
    /\ ClaimedCapacity(data) >= 32
    /\ SmallPrefixValue(data) = (ClaimedCapacity(data) - 32) + 1
    /\ decResult.error = "DeclaredLengthExceedsCapacity"

(***************************************************************************)
(* C8.  Empty message: with capacity >= 32 and the first 32 eligible low   *)
(* bits all zero, extract succeeds with the empty string whatever the      *)
(* other bytes are; extract after embed of "" returns "".                  *)
(***************************************************************************)
C8_EmptyMessage ==
    /\ (ExtractSettled /\ ClaimedCapacity(data) >= 32
            /\ AllZero(FirstLowBits(data, 32)))
          => decResult = Resolved(<<>>)
    /\ (ExtractOfEmbedded /\ text = <<>>) => decResult = Resolved(<<>>)

\* a foreign buffer with a zero prefix and other low bits set
C8_Witness ==
    /\ pc = "dec_done"
    /\ origin = "foreign"
    /\ ClaimedCapacity(data) >= 32
    /\ AllZero(FirstLowBits(data, 32))
    /\ \E i \in DOMAIN data : data[i] % 2 = 1 /\ data[i] \div 2 # 0
    /\ decResult = Resolved(<<>>)

(***************************************************************************)
(* C9.  Buffer too small: extract fails with BufferTooSmall exactly when   *)
(* floor(buffer.length/4)*3 < 32, and on that path no byte of the buffer   *)
(* has been read.                                                          *)
(***************************************************************************)
C9_BufferTooSmall ==
    Extracting =>
        /\ (decResult.error = "BufferTooSmall")
              <=> (ClaimedCapacity(data) < 32)
        /\ decResult.error = "BufferTooSmall"
              => readIdx = {} /\ extractedLengthBinary = <<>>

\* the largest buffer that is still too small
C9_Witness ==
    /\ pc = "dec_failed"
    /\ DataLength(data) = 40
    /\ decResult = Rejected("BufferTooSmall")

(***************************************************************************)
(* C10.  Length-prefix framing: after a successful embed the first 32      *)
(* eligible low bits, read in walk order as an unsigned big-endian         *)
(* integer, equal 8 times the number of UTF-8 bytes of the text, and that  *)
(* is the value extract takes as messageLength.                            *)
(***************************************************************************)
C10_LengthPrefix ==
    /\ EmbedSucceeded => SmallPrefixValue(data) = 8 * Utf8ByteCount(text)
    /\ (origin = "embedded" /\ pc \in {"dec_msg", "dec_done", "dec_failed"})
          => messageLength = [hi |-> 0, lo |-> 8 * Utf8ByteCount(text)]

\* a text whose bit, byte and code-unit counts all differ
C10_Witness ==
    /\ origin = "embedded"
    /\ pc = "dec_msg"
    /\ Utf8ByteCount(text) > Len(text)
    /\ messageLength.lo = 8 * Utf8ByteCount(text)

(***************************************************************************)
(* C11.  Walk stays in bounds: once the capacity check of embed has        *)
(* passed, the cursor is inside the buffer whenever a payload bit is still *)
(* unconsumed; once extract has passed its two checks, the cursor is       *)
(* inside the buffer whenever a bit is still to be read; neither call ends *)
(* in the ran-out-of-data failure, and every index read or written is in   *)
(* 0..length-1.                                                            *)
(***************************************************************************)
C11_WalkInBounds ==
    /\ encError # "RanOutOfData"
    /\ decResult.error # "RanOutOfData"
    /\ (pc = "enc_walk" /\ payloadIndex < Len(fullBinaryPayload))
          => dataIndex < DataLength(data)
    /\ (pc = "dec_len" /\ Len(extractedLengthBinary) < 32)
          => dataIndex < DataLength(data)
    /\ (pc = "dec_msg"
            /\ Len(extractedMessageBinary) < messageLength.lo)
          => dataIndex < DataLength(data)
    /\ readIdx \subseteq 0..(DataLength(data) - 1)
    /\ Embedding => DOMAIN data = DOMAIN data0
    /\ DOMAIN data = 0..(DataLength(data) - 1)

\* the last bit of a payload that fills the buffer exactly is about to be
\* written into the last eligible byte
C11_Witness ==
    /\ pc = "enc_walk"
    /\ Len(fullBinaryPayload) = ClaimedCapacity(data)
    /\ payloadIndex = Len(fullBinaryPayload) - 1
    /\ dataIndex = DataLength(data) - 2

(***************************************************************************)
(* C12.  Bit placement: after a successful embed of a frame of n bits, the *)
(* low bit of the byte at index k + floor(k/3) is frame bit k for every k  *)
(* in 0..n-1; during the walk the bits are consumed in increasing order,   *)
(* one per non-alpha byte passed; every byte past the byte of the last     *)
(* frame bit is unchanged.                                                 *)
(***************************************************************************)
C12_BitPlacement ==
    LET n == Len(fullBinaryPayload)
        eligibleBefore(i) == i - (i \div 4)
    IN  /\ pc \in {"enc_walk", "enc_done"} =>
              /\ payloadIndex = eligibleBefore(dataIndex)
              /\ \A k \in 0..(payloadIndex - 1) :
                    data[k + (k \div 3)] % 2 = fullBinaryPayload[k + 1]
              /\ \A i \in DOMAIN data0 : i >= dataIndex => data[i] = data0[i]
        /\ EmbedSucceeded =>
              /\ payloadIndex = n
              /\ \A k \in 0..(n - 1) :
                    /\ k + (k \div 3) = 4 * (k \div 3) + (k % 3)
                    /\ data[k + (k \div 3)] % 2 = fullBinaryPayload[k + 1]
              /\ \A i \in DOMAIN data0 :
                    i > (n - 1) + ((n - 1) \div 3) => data[i] = data0[i]

\* a frame with message bits has been embedded, bytes after it remain, and
\* the embed changed some low bit
C12_Witness ==
    /\ pc = "enc_done"
    /\ Len(fullBinaryPayload) > 32
    /\ dataIndex + 4 < DataLength(data)
    /\ \E i \in DOMAIN data0 : i > dataIndex /\ data0[i] % 2 = 1
    /\ data # data0

(***************************************************************************)
(* C13.  No stale result in the UI: whenever processedImageUrl is non-null *)
(* it is the encoding of the currently selected imageFile.                 *)
(***************************************************************************)
C13_NoStaleResult ==
    processedImageUrl # NoUrl => processedImageUrl.file = imageFile

====
